---- MODULE Spec2Model ----
(***************************************************************************)
(* procrastinate.manager.JobManager over a shared job store.               *)
(*                                                                         *)
(* The manager (src/procrastinate/manager.py) is a stateless facade: every *)
(* method issues one named query through the connector and post-processes  *)
(* the answer.  The queries themselves (procrastinate.sql) are not part of *)
(* the source tree at hand; the Store* operators below describe them as    *)
(* spec.md sections 3 to 7 do, each executed atomically by the store.      *)
(* Concurrency between processes is the interleaving of these atomic       *)
(* queries: a method that issues two queries, set_job_status_async, is two *)
(* steps, and other calls may take effect between them.                    *)
(*                                                                         *)
(* Python None / SQL NULL is the empty set, a present value x is {x}.      *)
(***************************************************************************)
EXTENDS Integers, Sequences, FiniteSets, Bags, TLC

VARIABLES
    jobs,       \* the job table: id -> job record
    nextId,     \* the store's id sequence
    periodic,   \* the periodic-defer dedup keys already taken: <<task, ts>>
    now,        \* the store's clock
    last,       \* the last manager call: its name, arguments and outcome
    hist,       \* per job: "live", "terminal" (has been succeeded or failed)
                \* or "overridden" (set_job_status was called on it)
    round,      \* the current run of consecutive identical calls
    since,      \* per job: when it entered doing, or a terminal status
    listeners,  \* the workers in listen_for_jobs: filter, channels, event
    setting     \* the set_job_status_async calls between their two queries:
                \* the bag of the ids they were given

vars ==
    <<jobs, nextId, periodic, now, last, hist, round, since, listeners,
      setting>>

----------------------------------------------------------------------------
\* Bounds of the model.

MaxJobs == 2
MaxTime == 1
MaxAttempts == 2
MaxRound == 2
MaxOverrides == 1
MaxCalls == 2

----------------------------------------------------------------------------
\* Values.

None == {}
Some(x) == {x}
The(opt) == CHOOSE x \in opt : TRUE

Queues == {"q1", "q2"}
Statuses == {"todo", "doing", "succeeded", "failed"}
Times == 0..MaxTime
\* The store's clock counts hours; get_stalled_jobs takes seconds.
SecondsPerTick == 3600

\* connector.QUEUEING_LOCK_CONSTRAINT, compared at manager.py:74.
QUEUEING_LOCK_CONSTRAINT == "procrastinate_jobs_queueing_lock_idx"
\* Any other unique constraint of the store.
OTHER_CONSTRAINT == "some_other_unique_constraint"

\* What the store may do to a query, whatever the table holds: answer it, or
\* fail with a uniqueness violation of an unrelated constraint, or fail
\* otherwise (connection lost, schema missing).
Faults == {"none", "other_unique", "connector_error"}
\* What the store may do to a query that only reads.
ReadFaults == {"none", "connector_error"}

\* Job descriptions handed to defer_job (jobs.Job: task_name, queue, lock,
\* queueing_lock, task_kwargs, scheduled_at).
Job(queue, lock, queueing_lock, scheduled_at) ==
    [task_name |-> "t1", queue |-> queue, lock |-> lock,
     queueing_lock |-> queueing_lock, task_kwargs |-> "kw",
     scheduled_at |-> scheduled_at]

JobInputs ==
    {Job("q1", Some("L1"), None, None),
     Job("q2", None, Some("Q1"), None)}
    \cup {Job("q1", Some("L1"), None, Some(t)) : t \in 1..MaxTime}

\* Periodic tasks (task.name, task.queue, task.lock, task.queueing_lock).
PeriodicTasks ==
    {[name |-> "p1", queue |-> "q1", lock |-> None, queueing_lock |-> None],
     [name |-> "p2", queue |-> "q2", lock |-> Some("L1"),
      queueing_lock |-> Some("Q1")]}

\* Queue filters passed to fetch_job: None or a collection of names.
FetchFilters == {None, Some({"q1"})}

\* Arguments of get_stalled_jobs: nb_seconds, queue, task_name.
StalledCalls ==
    {<<n, None, None>> : n \in {0, SecondsPerTick}}
    \cup {<<0, Some("q2"), None>>, <<0, None, Some("t1")>>}

\* Arguments of delete_old_jobs: nb_hours, queue, include_error.
DeleteCalls ==
    {<<n, None, e>> : n \in 0..MaxTime, e \in {Some(FALSE), Some(TRUE)}}
    \cup {<<0, Some("q1"), None>>}

\* Filters of list_jobs (id, queue, task, status, lock, queueing_lock).
NoFilter ==
    [id |-> None, queue |-> None, task |-> None, status |-> None,
     lock |-> None, queueing_lock |-> None]

ListFilters ==
    {NoFilter,
     [NoFilter EXCEPT !.id = Some(1)],
     [NoFilter EXCEPT !.id = Some(MaxJobs + 1)],
     [NoFilter EXCEPT !.queue = Some("q2")],
     [NoFilter EXCEPT !.status = Some("doing"), !.lock = Some("L1")],
     [NoFilter EXCEPT !.task = Some("t1"), !.queueing_lock = Some("Q1")]}

\* Filters of list_queues and list_tasks (queue, task, status, lock).
NoStatsFilter ==
    [queue |-> None, task |-> None, status |-> None, lock |-> None]

StatsFilters ==
    {NoStatsFilter,
     [NoStatsFilter EXCEPT !.status = Some("todo")],
     [NoStatsFilter EXCEPT !.queue = Some("q1"), !.task = Some("t1")],
     [NoStatsFilter EXCEPT !.lock = Some("L1")]}

\* Workers that may listen, and the filters they listen with.
Workers == {"w1", "w2"}
ListenFilters == {None, Some(<<"q1">>), Some(<<"q1", "q2">>)}

----------------------------------------------------------------------------
\* The store: the named queries the manager issues, as spec.md describes
\* them.  Each takes the table and returns the new table with the answer.

Active(j) == j.status \in {"todo", "doing"}

\* spec.md 3: a non-null queueing_lock is held by at most one record with
\* status todo or doing; a store-enforced uniqueness constraint.
QueueingLockConstraint(js) ==
    \A a, b \in DOMAIN js :
        (a # b /\ js[a].queueing_lock # None
               /\ js[a].queueing_lock = js[b].queueing_lock)
            => ~(Active(js[a]) /\ Active(js[b]))

\* The connector's answers: a row, nothing, or an exception raised.
\* exceptions.UniqueViolation carries the name of the violated constraint.
UniqueViolation(c) == [type |-> "UniqueViolation", constraint_name |-> c]
ConnectorError == [type |-> "ConnectorError"]
RowAnswer(r) == [kind |-> "row", row |-> r]
Done == [kind |-> "ok"]
Raised(e) == [kind |-> "error", error |-> e]
FaultAnswer(fault) ==
    IF fault = "other_unique"
    THEN Raised(UniqueViolation(OTHER_CONSTRAINT))
    ELSE Raised(ConnectorError)

\* Commit without the uniqueness check: every write goes through.
CommitUnchecked(js, js2, answer) == [jobs |-> js2, answer |-> answer]

\* A write is committed when the table it leaves satisfies the store's
\* constraint, and refused with a uniqueness violation otherwise.
Commit(js, js2, answer) ==
    IF QueueingLockConstraint(js2)
    THEN [jobs |-> js2, answer |-> answer]
    ELSE [jobs |-> js,
          answer |-> Raised(UniqueViolation(QUEUEING_LOCK_CONSTRAINT))]

Insert(js, id, rec) ==
    [i \in DOMAIN js \cup {id} |-> IF i = id THEN rec ELSE js[i]]

\* spec.md 4.2: persist the description as a new todo record, return its id.
StoreDeferJob(js, id, kw, fault) ==
    LET rec == [task_name |-> kw.task_name, queue |-> kw.queue,
                lock |-> kw.lock, queueing_lock |-> kw.queueing_lock,
                args |-> kw.args, scheduled_at |-> kw.scheduled_at,
                status |-> "todo", attempts |-> 0]
    IN  IF fault # "none"
        THEN [jobs |-> js, answer |-> FaultAnswer(fault)]
        ELSE Commit(js, Insert(js, id, rec), RowAnswer([id |-> Some(id)]))

\* spec.md 4.3: one record per (task, timestamp); a null id when the key is
\* already taken.
StoreDeferPeriodicJob(js, keys, id, kw) ==
    LET key == <<kw.task_name, kw.defer_timestamp>>
        rec == [task_name |-> kw.task_name, queue |-> kw.queue,
                lock |-> kw.lock, queueing_lock |-> kw.queueing_lock,
                args |-> "timestamp", scheduled_at |-> None,
                status |-> "todo", attempts |-> 0]
        c == Commit(js, Insert(js, id, rec), RowAnswer([id |-> Some(id)]))
    IN  IF key \in keys
        THEN [jobs |-> js, keys |-> keys, answer |-> RowAnswer([id |-> None])]
        ELSE [jobs |-> c.jobs, answer |-> c.answer,
              keys |-> IF c.answer.kind = "row" THEN keys \cup {key} ELSE keys]

\* Eligibility without the lock condition.
EligibleIgnoringLock(js, id, queues, t) ==
    /\ js[id].status = "todo"
    /\ \A s \in js[id].scheduled_at : s <= t
    /\ \A names \in queues : js[id].queue \in names

\* spec.md 4.4, eligibility.
Eligible(js, id, queues, t) ==
    /\ js[id].status = "todo"
    /\ \A s \in js[id].scheduled_at : s <= t
    /\ \A names \in queues : js[id].queue \in names
    /\ ~\E o \in DOMAIN js :
            /\ o # id
            /\ js[o].lock # None
            /\ js[o].lock = js[id].lock
            /\ js[o].status = "doing"

Row(js, id) ==
    [id |-> Some(id), task_name |-> js[id].task_name, queue |-> js[id].queue,
     lock |-> js[id].lock, queueing_lock |-> js[id].queueing_lock,
     args |-> js[id].args, scheduled_at |-> js[id].scheduled_at,
     attempts |-> js[id].attempts]

\* The claim that does not count the attempt.
StoreFetchJobNotCounting(js, queues, t) ==
    LET cand == {i \in DOMAIN js : Eligible(js, i, queues, t)}
        id == CHOOSE i \in cand : \A o \in cand : i <= o
        js2 == [js EXCEPT ![id].status = "doing"]
    IN  IF cand = {}
        THEN [jobs |-> js, answer |-> RowAnswer([id |-> None])]
        ELSE [jobs |-> js2, answer |-> RowAnswer(Row(js2, id))]

\* spec.md 4.4: claim the earliest-created eligible job: doing, attempts + 1;
\* a row of nulls when there is none.
StoreFetchJob(js, queues, t) ==
    LET cand == {i \in DOMAIN js : Eligible(js, i, queues, t)}
        id == CHOOSE i \in cand : \A o \in cand : i <= o
        js2 == [js EXCEPT ![id].status = "doing",
                          ![id].attempts = js[id].attempts + 1]
    IN  IF cand = {}
        THEN [jobs |-> js, answer |-> RowAnswer([id |-> None])]
        ELSE [jobs |-> js2, answer |-> RowAnswer(Row(js2, id))]

\* spec.md 4.5: set the status of the job with this id.
StoreFinishJob(js, job_id, status) ==
    IF job_id \in DOMAIN js
    THEN Commit(js, [js EXCEPT ![job_id].status = status], Done)
    ELSE [jobs |-> js, answer |-> Done]

\* spec.md 4.5: back to todo with scheduled_at = retry_at.
StoreRetryJob(js, job_id, retry_at) ==
    IF job_id \in DOMAIN js
    THEN Commit(js, [js EXCEPT ![job_id].status = "todo",
                               ![job_id].scheduled_at = Some(retry_at)],
                Done)
    ELSE [jobs |-> js, answer |-> Done]

\* spec.md 4.8: force the status of the job with this id.
StoreSetJobStatus(js, id, status) ==
    IF id \in DOMAIN js
    THEN Commit(js, [js EXCEPT ![id].status = status], Done)
    ELSE [jobs |-> js, answer |-> Done]

\* todo, doing, or terminal.
StatusClass(status) ==
    IF status \in {"succeeded", "failed"} THEN "terminal" ELSE status

\* spec.md 4.6 and 4.7 speak of a job's last transition into doing and of
\* when it reached a terminal state: the store keeps, with every write, the
\* time at which each doing or terminal job became so.
Stamped(js, js2, st, t) ==
    [i \in DOMAIN js2 |->
        IF js2[i].status = "todo" THEN None
        ELSE IF /\ i \in DOMAIN js
                /\ StatusClass(js[i].status) = StatusClass(js2[i].status)
        THEN st[i]
        ELSE Some(t)]

\* spec.md 4.6: the doing jobs whose last transition into doing is longer
\* ago than nb_seconds, within the queue and task filters.  Reads only.
StoreSelectStalledJobs(js, st, t, nb_seconds, queue, task_name) ==
    {Row(js, i) : i \in
        {k \in DOMAIN js :
            /\ js[k].status = "doing"
            /\ \E s \in st[k] : (t - s) * SecondsPerTick > nb_seconds
            /\ \A q \in queue : js[k].queue = q
            /\ \A n \in task_name : js[k].task_name = n}}

\* spec.md 4.7: delete the records whose status is one of statuses, reached
\* more than nb_hours ago, within the queue filter.
StoreDeleteOldJobs(js, st, t, nb_hours, queue, statuses) ==
    LET old == {k \in DOMAIN js :
                    /\ \E n \in 1..Len(statuses) : js[k].status = statuses[n]
                    /\ js[k].status \in {"succeeded", "failed"}
                    /\ \E s \in st[k] : t - s > nb_hours
                    /\ \A q \in queue : js[k].queue = q}
    IN  [jobs |-> [i \in DOMAIN js \ old |-> js[i]], answer |-> Done]

\* A record matches the filters of the listings (spec.md 4.9).
Matches(j, f) ==
    /\ \A q \in f.queue_name : j.queue = q
    /\ \A n \in f.task_name : j.task_name = n
    /\ \A s \in f.status : j.status = s
    /\ \A l \in f.lock : j.lock = Some(l)

\* spec.md 4.9: the rows of the job listing.
StoreListJobsRows(js, f) ==
    {[id |-> i, queue_name |-> js[i].queue, task_name |-> js[i].task_name,
      lock |-> js[i].lock, queueing_lock |-> js[i].queueing_lock,
      args |-> js[i].args, status |-> js[i].status,
      scheduled_at |-> js[i].scheduled_at, attempts |-> js[i].attempts] :
        i \in {k \in DOMAIN js :
                /\ Matches(js[k], f)
                /\ \A x \in f.id : k = x
                /\ \A l \in f.queueing_lock : js[k].queueing_lock = Some(l)}}

RowsAnswer(rows) == [kind |-> "rows", rows |-> rows]

\* The listing as the connector answers it: the rows, or an exception.
StoreListJobs(js, f, fault) ==
    IF fault # "none"
    THEN FaultAnswer(fault)
    ELSE RowsAnswer(StoreListJobsRows(js, f))

\* spec.md 4.9: the aggregation behind the queue and task statistics: one
\* row per name with at least one matching job, its count, and one bucket
\* per status that occurs; a status that does not occur has no bucket.
Aggregate(js, S, name) ==
    {[name |-> n,
      jobs_count |-> Cardinality({i \in S : js[i][name] = n}),
      stats |-> [s \in {js[i].status : i \in {k \in S : js[k][name] = n}}
                    |-> Cardinality({i \in S : /\ js[i][name] = n
                                               /\ js[i].status = s})]] :
        n \in {js[i][name] : i \in S}}

StoreListQueues(js, f) ==
    Aggregate(js, {i \in DOMAIN js : Matches(js[i], f)}, "queue")

StoreListTasks(js, f) ==
    LET g == [queue_name |-> f.queue_name, task_name |-> f.name,
              status |-> f.status, lock |-> f.lock]
    IN  Aggregate(js, {i \in DOMAIN js : Matches(js[i], g)}, "task_name")

\* spec.md 2 and 4.1: a committed defer is published on the channel of the
\* record's queue and on the channel for any queue; the connector sets the
\* event of every listener subscribed to a channel published on.
Published(queue) == {"procrastinate_queue#" \o queue, "procrastinate_any_queue"}

\* The queues of the records a write has created.
Created(js, js2) == {js2[i].queue : i \in DOMAIN js2 \ DOMAIN js}

Notified(ls, created) ==
    [w \in DOMAIN ls |->
        IF \E q \in created, k \in 1..Len(ls[w].channels) :
                ls[w].channels[k] \in Published(q)
        THEN [ls[w] EXCEPT !.event = TRUE]
        ELSE ls[w]]

----------------------------------------------------------------------------
\* The manager (src/procrastinate/manager.py).

\* str(uuid.uuid4()): a token no other job carries; the n-th one drawn.
Uuid4(n) == "uuid-" \o ToString(n)

\* Python truth of an optional string: None and "" are false.
Truthy(opt) == opt # None /\ opt # Some("")

\* _defer_job_query_kwargs
DeferJobQueryKwargs(job, uuid) ==
    [task_name |-> job.task_name,
     queue |-> job.queue,
     lock |-> IF Truthy(job.lock) THEN job.lock ELSE Some(uuid),
     queueing_lock |-> job.queueing_lock,
     args |-> job.task_kwargs,
     scheduled_at |-> job.scheduled_at]

\* No exception: the call returns.
NoExc == [type |-> "none"]

\* _raise_already_enqueued taking every uniqueness violation for the
\* queueing lock's.
RaiseAlreadyEnqueuedAlways(exc, queueing_lock) ==
    [type |-> "AlreadyEnqueued", queueing_lock |-> queueing_lock]

\* _raise_already_enqueued: the exception that leaves it.
RaiseAlreadyEnqueued(exc, queueing_lock) ==
    IF exc.constraint_name = QUEUEING_LOCK_CONSTRAINT
    THEN [type |-> "AlreadyEnqueued", queueing_lock |-> queueing_lock]
    ELSE exc

\* defer_job without its except clause.
DeferJobResultUncaught(answer, queueing_lock) ==
    IF answer.kind = "error"
    THEN [exc |-> answer.error, ret |-> None]
    ELSE [exc |-> NoExc, ret |-> answer.row.id]

\* defer_job: try / except UniqueViolation / return result["id"].
DeferJobResult(answer, queueing_lock) ==
    IF answer.kind = "error" /\ answer.error.type = "UniqueViolation"
    THEN [exc |-> RaiseAlreadyEnqueued(answer.error, queueing_lock),
          ret |-> None]
    ELSE IF answer.kind = "error"
    THEN [exc |-> answer.error, ret |-> None]
    ELSE [exc |-> NoExc, ret |-> answer.row.id]

\* defer_job_async without its except clause.
DeferJobAsyncResultUncaught(answer, queueing_lock) ==
    IF answer.kind = "error"
    THEN [exc |-> answer.error, ret |-> None]
    ELSE [exc |-> NoExc, ret |-> answer.row.id]

\* defer_job_async: the same statements around the awaiting connector call.
DeferJobAsyncResult(answer, queueing_lock) ==
    IF answer.kind = "error" /\ answer.error.type = "UniqueViolation"
    THEN [exc |-> RaiseAlreadyEnqueued(answer.error, queueing_lock),
          ret |-> None]
    ELSE IF answer.kind = "error"
    THEN [exc |-> answer.error, ret |-> None]
    ELSE [exc |-> NoExc, ret |-> answer.row.id]

\* defer_periodic_job: the keyword arguments of its query.
DeferPeriodicJobQueryKwargs(task, defer_timestamp) ==
    [task_name |-> task.name,
     queue |-> task.queue,
     lock |-> task.lock,
     queueing_lock |-> task.queueing_lock,
     defer_timestamp |-> defer_timestamp]

\* defer_periodic_job taking a uniqueness violation for "already deferred".
DeferPeriodicJobResultSilent(answer, queueing_lock) ==
    IF answer.kind = "error" /\ answer.error.type = "UniqueViolation"
    THEN [exc |-> NoExc, ret |-> None]
    ELSE IF answer.kind = "error"
    THEN [exc |-> answer.error, ret |-> None]
    ELSE [exc |-> NoExc, ret |-> answer.row.id]

\* defer_periodic_job: try / except UniqueViolation / return result["id"].
DeferPeriodicJobResult(answer, queueing_lock) ==
    IF answer.kind = "error" /\ answer.error.type = "UniqueViolation"
    THEN [exc |-> RaiseAlreadyEnqueued(answer.error, queueing_lock),
          ret |-> None]
    ELSE IF answer.kind = "error"
    THEN [exc |-> answer.error, ret |-> None]
    ELSE [exc |-> NoExc, ret |-> answer.row.id]

\* fetch_job not handing its filter to the query.
FetchJobQueryKwargsUnfiltered(queues) == [queues |-> None]

\* fetch_job: the keyword arguments of its query.
FetchJobQueryKwargs(queues) == [queues |-> queues]

\* fetch_job testing another nullable column of the row.
FetchJobResultWrongColumn(row) ==
    IF row.id = None \/ row.scheduled_at = None THEN None ELSE row.id

\* fetch_job: None when the row's id is None, the job of the row otherwise.
FetchJobResult(row) ==
    IF row.id = None THEN None ELSE row.id

\* retry_job handing the query no time to wait for.
RetryJobQueryKwargsAtOnce(id, retry_at) == [job_id |-> id, retry_at |-> 0]

\* retry_job: the keyword arguments of its query.
RetryJobQueryKwargs(id, retry_at) == [job_id |-> id, retry_at |-> retry_at]

\* An exception of the connector that no handler of the method catches.
Propagated(answer) ==
    IF answer.kind = "error" THEN answer.error ELSE NoExc

\* get_channel_for_queues subscribing a filtered worker to every queue too.
GetChannelForQueuesWithAny(queues) ==
    IF queues = None
    THEN <<"procrastinate_any_queue">>
    ELSE [k \in 1..Len(The(queues)) |-> "procrastinate_queue#" \o The(queues)[k]]
         \o <<"procrastinate_any_queue">>

\* get_channel_for_queues: queues is None or a sequence of queue names.
GetChannelForQueues(queues) ==
    IF queues = None
    THEN <<"procrastinate_any_queue">>
    ELSE [k \in 1..Len(The(queues)) |-> "procrastinate_queue#" \o The(queues)[k]]

\* get_stalled_jobs not handing its queue filter to the query.
GetStalledJobsQueryKwargsNoQueue(nb_seconds, queue, task_name) ==
    [nb_seconds |-> nb_seconds, queue |-> None, task_name |-> task_name]

\* get_stalled_jobs: the keyword arguments of its query.
GetStalledJobsQueryKwargs(nb_seconds, queue, task_name) ==
    [nb_seconds |-> nb_seconds, queue |-> queue, task_name |-> task_name]

\* get_stalled_jobs: one job per row.
GetStalledJobsResult(rows) == {The(row.id) : row \in rows}

\* delete_old_jobs choosing the statuses as its docstring has it.
DeleteOldJobsStatusesAsDocumented(include_error) ==
    IF include_error = Some(TRUE)
    THEN <<"succeeded">>
    ELSE <<"succeeded", "failed">>

\* delete_old_jobs: "if not include_error", include_error being None, False
\* or True.
DeleteOldJobsStatuses(include_error) ==
    IF include_error # Some(TRUE)
    THEN <<"succeeded">>
    ELSE <<"succeeded", "failed">>

\* delete_old_jobs: the keyword arguments of its query.
DeleteOldJobsQueryKwargs(nb_hours, queue, include_error) ==
    [nb_hours |-> nb_hours, queue |-> queue,
     statuses |-> DeleteOldJobsStatuses(include_error)]

\* list_jobs_async: the keyword arguments of its query.
ListJobsQueryKwargs(f) ==
    [id |-> f.id, queue_name |-> f.queue, task_name |-> f.task,
     status |-> f.status, lock |-> f.lock, queueing_lock |-> f.queueing_lock]

\* list_jobs_async: one dictionary per row.
ListJobsResult(rows) ==
    {[id |-> row.id, queue |-> row.queue_name, task |-> row.task_name,
      lock |-> row.lock, queueing_lock |-> row.queueing_lock,
      args |-> row.args, status |-> row.status,
      scheduled_at |-> row.scheduled_at, attempts |-> row.attempts] :
        row \in rows}

\* set_job_status_async: the keyword arguments of its first query.
SetJobStatusQueryKwargs(id, status) == [id |-> id, status |-> status]

\* set_job_status_async: the filters of its call of list_jobs_async.
SetJobStatusListFilter(id) == [NoFilter EXCEPT !.id = Some(id)]

\* set_job_status_async: "(result,) = await self.list_jobs_async(id=id)",
\* which raises ValueError unless the listing has exactly one entry, and
\* "return result".
SetJobStatusResult(answer) ==
    IF answer.kind = "error"
    THEN [exc |-> answer.error, ret |-> None]
    ELSE IF Cardinality(ListJobsResult(answer.rows)) # 1
    THEN [exc |-> [type |-> "ValueError"], ret |-> None]
    ELSE [exc |-> NoExc, ret |-> ListJobsResult(answer.rows)]

\* list_queues_async: the keyword arguments of its query.
ListQueuesQueryKwargs(f) ==
    [queue_name |-> f.queue, task_name |-> f.task,
     status |-> f.status, lock |-> f.lock]

\* list_tasks_async: the keyword arguments of its query ("name" for the task
\* filter; the store reads it as the task name).
ListTasksQueryKwargs(f) ==
    [queue_name |-> f.queue, name |-> f.task,
     status |-> f.status, lock |-> f.lock]

\* dict.get(key, default)
Get(d, key, default) == IF key \in DOMAIN d THEN d[key] ELSE default

\* The statistics entry copying the buckets the aggregation has.
StatsEntryAsAggregated(row) ==
    [k \in {"name", "jobs_count"} \cup DOMAIN row.stats |->
        IF k = "name" THEN row.name
        ELSE IF k = "jobs_count" THEN row.jobs_count
        ELSE row.stats[k]]

\* list_queues_async and list_tasks_async: the dictionary built from a row of
\* the aggregation.
StatsEntry(row) ==
    [name |-> row.name,
     jobs_count |-> row.jobs_count,
     todo |-> Get(row.stats, "todo", 0),
     doing |-> Get(row.stats, "doing", 0),
     succeeded |-> Get(row.stats, "succeeded", 0),
     failed |-> Get(row.stats, "failed", 0)]

----------------------------------------------------------------------------
\* Bookkeeping of the history the properties speak about.

Terminal(j) == j.status \in {"succeeded", "failed"}

HistAfter(js2, over) ==
    [i \in DOMAIN js2 |->
        IF i \in over \/ (i \in DOMAIN hist /\ hist[i] = "overridden")
        THEN "overridden"
        ELSE IF (i \in DOMAIN hist /\ hist[i] = "terminal") \/ Terminal(js2[i])
        THEN "terminal"
        ELSE "live"]

NoRound == [kind |-> "none"]

\* The locks of the jobs of S are pairwise distinct (a null lock is no lock).
DistinctLocks(js, S) ==
    \A a, b \in S : (a # b /\ js[a].lock # None) => js[a].lock # js[b].lock

\* A run of consecutive fetch_job calls with the same filter, nothing else
\* happening in between: the jobs eligible when it began, and the results.
RoundAfterFetch(queues, ret) ==
    IF /\ round.kind = "fetch"
       /\ round.key = queues
       /\ Len(round.rets) < MaxRound
    THEN [round EXCEPT !.rets = Append(@, ret)]
    ELSE LET ready == {i \in DOMAIN jobs : Eligible(jobs, i, queues, now)}
         IN  [kind |-> "fetch", key |-> queues,
              m |-> Cardinality(ready),
              distinct |-> DistinctLocks(jobs, ready),
              rets |-> <<ret>>]

\* A run of consecutive defer_periodic_job calls with the same task and
\* timestamp: what held when it began, and the outcomes.
RoundAfterPeriodic(task, ts, out) ==
    IF /\ round.kind = "periodic"
       /\ round.key = <<task.name, ts>>
       /\ Len(round.outs) < MaxRound
    THEN [round EXCEPT !.outs = Append(@, out)]
    ELSE [kind |-> "periodic", key |-> <<task.name, ts>>,
          fresh |-> <<task.name, ts>> \notin periodic,
          held |-> \E i \in DOMAIN jobs :
                      /\ task.queueing_lock # None
                      /\ jobs[i].queueing_lock = task.queueing_lock
                      /\ Active(jobs[i]),
          before |-> DOMAIN jobs,
          outs |-> <<out>>]

----------------------------------------------------------------------------
\* The state after construction: an empty table.

Init ==
    /\ jobs = << >>
    /\ nextId = 1
    /\ periodic = {}
    /\ now = 0
    /\ last = [op |-> "init", call |-> << >>, answer |-> Done,
               exc |-> NoExc, ret |-> None]
    /\ hist = << >>
    /\ round = NoRound
    /\ since = << >>
    /\ listeners = << >>
    /\ setting = EmptyBag

----------------------------------------------------------------------------
\* One action per manager method.
\* A method issues its query once: st is what the store makes of it, the new
\* table with the answer.

DeferJob(job, fault) ==
    LET kw == DeferJobQueryKwargs(job, Uuid4(nextId))
    IN  \E st \in {StoreDeferJob(jobs, nextId, kw, fault)} :
        LET out == DeferJobResult(st.answer, job.queueing_lock)
        IN
        /\ st.answer.kind = "row" => nextId <= MaxJobs
        /\ jobs' = st.jobs
        /\ nextId' = IF st.answer.kind = "row" THEN nextId + 1 ELSE nextId
        /\ last' = [op |-> "defer_job",
                    call |-> [job |-> job, fault |-> fault],
                    answer |-> st.answer, exc |-> out.exc, ret |-> out.ret]
        /\ hist' = HistAfter(st.jobs, {})
        /\ round' = NoRound
        /\ since' = Stamped(jobs, st.jobs, since, now)
        /\ listeners' = Notified(listeners, Created(jobs, st.jobs))
        /\ UNCHANGED <<periodic, now, setting>>

DeferJobAsync(job, fault) ==
    LET kw == DeferJobQueryKwargs(job, Uuid4(nextId))
    IN  \E st \in {StoreDeferJob(jobs, nextId, kw, fault)} :
        LET out == DeferJobAsyncResult(st.answer, job.queueing_lock)
        IN
        /\ st.answer.kind = "row" => nextId <= MaxJobs
        /\ jobs' = st.jobs
        /\ nextId' = IF st.answer.kind = "row" THEN nextId + 1 ELSE nextId
        /\ last' = [op |-> "defer_job_async",
                    call |-> [job |-> job, fault |-> fault],
                    answer |-> st.answer, exc |-> out.exc, ret |-> out.ret]
        /\ hist' = HistAfter(st.jobs, {})
        /\ round' = NoRound
        /\ since' = Stamped(jobs, st.jobs, since, now)
        /\ listeners' = Notified(listeners, Created(jobs, st.jobs))
        /\ UNCHANGED <<periodic, now, setting>>

DeferPeriodicJob(task, defer_timestamp) ==
    LET kw == DeferPeriodicJobQueryKwargs(task, defer_timestamp)
    IN  \E st \in {StoreDeferPeriodicJob(jobs, periodic, nextId, kw)} :
        LET out == DeferPeriodicJobResult(st.answer, task.queueing_lock)
        IN
        /\ st.jobs # jobs => nextId <= MaxJobs
        /\ jobs' = st.jobs
        /\ periodic' = st.keys
        /\ nextId' = IF st.jobs # jobs THEN nextId + 1 ELSE nextId
        /\ last' = [op |-> "defer_periodic_job",
                    call |-> [task |-> task, defer_timestamp |-> defer_timestamp],
                    answer |-> st.answer, exc |-> out.exc, ret |-> out.ret]
        /\ hist' = HistAfter(st.jobs, {})
        /\ round' = RoundAfterPeriodic(task, defer_timestamp, out)
        /\ since' = Stamped(jobs, st.jobs, since, now)
        /\ listeners' = Notified(listeners, Created(jobs, st.jobs))
        /\ UNCHANGED <<now, setting>>

FetchJob(queues) ==
    LET kw == FetchJobQueryKwargs(queues)
    IN  \E st \in {StoreFetchJob(jobs, kw.queues, now)} :
        LET ret == FetchJobResult(st.answer.row)
        IN
        /\ \A i \in ret : jobs[i].attempts < MaxAttempts
        /\ jobs' = st.jobs
        /\ last' = [op |-> "fetch_job", call |-> [queues |-> queues],
                    answer |-> st.answer, exc |-> NoExc, ret |-> ret]
        /\ hist' = HistAfter(st.jobs, {})
        /\ round' = RoundAfterFetch(queues, ret)
        /\ since' = Stamped(jobs, st.jobs, since, now)
        /\ UNCHANGED <<nextId, periodic, now, listeners, setting>>

\* finish_job: "assert job.id" fails for a job without id (None) and for id
\* 0, before any query; a job without id is id 0 here.
FinishJobAsserts(id) == id # 0

\* finish_job on whatever job it is handed: nothing in the method asks
\* whether the job is doing, or whether a record carries the id.
FinishJob(id, status) ==
    IF ~FinishJobAsserts(id)
    THEN /\ last' = [op |-> "finish_job",
                     call |-> [id |-> id, status |-> status],
                     answer |-> Done,
                     exc |-> [type |-> "AssertionError"], ret |-> None]
         /\ round' = NoRound
         /\ UNCHANGED <<jobs, nextId, periodic, now, hist, since, listeners,
                        setting>>
    ELSE \E st \in {StoreFinishJob(jobs, id, status)} :
         /\ jobs' = st.jobs
         /\ last' = [op |-> "finish_job",
                     call |-> [id |-> id, status |-> status],
                     answer |-> st.answer,
                     exc |-> Propagated(st.answer), ret |-> None]
         /\ hist' = HistAfter(st.jobs, {})
         /\ round' = NoRound
         /\ since' = Stamped(jobs, st.jobs, since, now)
         /\ UNCHANGED <<nextId, periodic, now, listeners, setting>>

\* retry_job: the query, whatever the job.
RetryJob(id, retry_at) ==
    LET kw == RetryJobQueryKwargs(id, retry_at)
    IN  \E st \in {StoreRetryJob(jobs, kw.job_id, kw.retry_at)} :
        /\ jobs' = st.jobs
        /\ last' = [op |-> "retry_job",
                    call |-> [id |-> id, retry_at |-> retry_at],
                    answer |-> st.answer,
                    exc |-> Propagated(st.answer), ret |-> None]
        /\ hist' = HistAfter(st.jobs, {})
        /\ round' = NoRound
        /\ since' = Stamped(jobs, st.jobs, since, now)
        /\ UNCHANGED <<nextId, periodic, now, listeners, setting>>

\* set_job_status_async, first query: the update.  When the store refuses
\* it the exception leaves the call; otherwise the call goes on to list the
\* job.  Any number of callers may be between their two queries; the model
\* follows at most MaxCalls of them.
SetJobStatus(id, status) ==
    LET kw == SetJobStatusQueryKwargs(id, status)
    IN  \E st \in {StoreSetJobStatus(jobs, kw.id, kw.status)} :
        /\ BagCardinality(setting) < MaxCalls
        /\ id \in DOMAIN jobs =>
                Cardinality({i \in DOMAIN hist : hist[i] = "overridden"}
                            \cup {id}) <= MaxOverrides
        /\ jobs' = st.jobs
        /\ last' = [op |-> "set_job_status",
                    call |-> [id |-> id, status |-> status],
                    answer |-> st.answer,
                    exc |-> Propagated(st.answer), ret |-> None]
        /\ setting' = IF st.answer.kind = "error" THEN setting
                       ELSE setting (+) SetToBag({id})
        /\ hist' = HistAfter(st.jobs, {id})
        /\ round' = NoRound
        /\ since' = Stamped(jobs, st.jobs, since, now)
        /\ UNCHANGED <<nextId, periodic, now, listeners>>

\* set_job_status_async, second query: the listing by id, unpacked as a
\* one-element list, and the return of its entry.  Whatever other callers
\* did to the table since the update is in the listing, the updates of
\* other set_job_status_async calls included.
SetJobStatusReturn(id, fault) ==
    /\ BagIn(id, setting)
    /\ \E answer \in {StoreListJobs(jobs,
                            ListJobsQueryKwargs(SetJobStatusListFilter(id)),
                            fault)} :
        LET out == SetJobStatusResult(answer)
        IN  last' = [op |-> "set_job_status_return",
                     call |-> [id |-> id, fault |-> fault],
                     answer |-> answer, exc |-> out.exc, ret |-> out.ret]
    /\ setting' = setting (-) SetToBag({id})
    /\ round' = NoRound
    /\ UNCHANGED <<jobs, nextId, periodic, now, hist, since, listeners>>

GetStalledJobs(nb_seconds, queue, task_name) ==
    LET kw == GetStalledJobsQueryKwargs(nb_seconds, queue, task_name)
        rows == StoreSelectStalledJobs(jobs, since, now, kw.nb_seconds,
                                       kw.queue, kw.task_name)
    IN  /\ last' = [op |-> "get_stalled_jobs",
                    call |-> [nb_seconds |-> nb_seconds, queue |-> queue,
                              task_name |-> task_name],
                    answer |-> RowsAnswer(rows), exc |-> NoExc,
                    ret |-> GetStalledJobsResult(rows)]
        /\ round' = NoRound
        /\ UNCHANGED <<jobs, nextId, periodic, now, hist, since, listeners,
                      setting>>

DeleteOldJobs(nb_hours, queue, include_error) ==
    LET kw == DeleteOldJobsQueryKwargs(nb_hours, queue, include_error)
    IN  \E st \in {StoreDeleteOldJobs(jobs, since, now, kw.nb_hours,
                                       kw.queue, kw.statuses)} :
        /\ jobs' = st.jobs
        /\ last' = [op |-> "delete_old_jobs",
                    call |-> [nb_hours |-> nb_hours, queue |-> queue,
                              include_error |-> include_error],
                    answer |-> st.answer, exc |-> NoExc, ret |-> None]
        /\ hist' = HistAfter(st.jobs, {})
        /\ round' = NoRound
        /\ since' = Stamped(jobs, st.jobs, since, now)
        /\ UNCHANGED <<nextId, periodic, now, listeners, setting>>

ListJobs(f) ==
    LET rows == StoreListJobsRows(jobs, ListJobsQueryKwargs(f))
    IN  /\ last' = [op |-> "list_jobs", call |-> f,
                    answer |-> RowsAnswer(rows), exc |-> NoExc,
                    ret |-> ListJobsResult(rows)]
        /\ round' = NoRound
        /\ UNCHANGED <<jobs, nextId, periodic, now, hist, since, listeners,
                      setting>>

ListQueues(f) ==
    LET rows == StoreListQueues(jobs, ListQueuesQueryKwargs(f))
    IN  /\ last' = [op |-> "list_queues", call |-> f,
                    answer |-> RowsAnswer(rows), exc |-> NoExc,
                    ret |-> {StatsEntry(row) : row \in rows}]
        /\ round' = NoRound
        /\ UNCHANGED <<jobs, nextId, periodic, now, hist, since, listeners,
                      setting>>

ListTasks(f) ==
    LET rows == StoreListTasks(jobs, ListTasksQueryKwargs(f))
    IN  /\ last' = [op |-> "list_tasks", call |-> f,
                    answer |-> RowsAnswer(rows), exc |-> NoExc,
                    ret |-> {StatsEntry(row) : row \in rows}]
        /\ round' = NoRound
        /\ UNCHANGED <<jobs, nextId, periodic, now, hist, since, listeners,
                      setting>>

\* listen_for_jobs: the connector subscribes the worker's event to the
\* channels of its filter, until the call is cancelled.
ListenForJobs(w, queues) ==
    /\ w \notin DOMAIN listeners
    /\ listeners' =
          [v \in DOMAIN listeners \cup {w} |->
              IF v = w
              THEN [queues |-> queues,
                    channels |-> GetChannelForQueues(queues),
                    event |-> FALSE]
              ELSE listeners[v]]
    /\ last' = [op |-> "listen_for_jobs",
                call |-> [worker |-> w, queues |-> queues],
                answer |-> Done, exc |-> NoExc, ret |-> None]
    /\ round' = NoRound
    /\ UNCHANGED <<jobs, nextId, periodic, now, hist, since, setting>>

CancelListen(w) ==
    /\ w \in DOMAIN listeners
    /\ listeners' = [v \in DOMAIN listeners \ {w} |-> listeners[v]]
    /\ last' = [op |-> "cancel_listen", call |-> [worker |-> w],
                answer |-> Done, exc |-> NoExc, ret |-> None]
    /\ round' = NoRound
    /\ UNCHANGED <<jobs, nextId, periodic, now, hist, since, setting>>

\* Time passes.
Tick ==
    /\ now < MaxTime
    /\ now' = now + 1
    /\ last' = [op |-> "tick", call |-> << >>, answer |-> Done,
                exc |-> NoExc, ret |-> None]
    /\ round' = NoRound
    /\ UNCHANGED <<jobs, nextId, periodic, hist, since, listeners, setting>>

\* Producers and workers; finish_job and retry_job are handed any job,
\* claimed or not, still doing or not, in the table or not.
Next ==
    \/ \E job \in JobInputs : DeferJob(job, "none")
    \/ \E job \in JobInputs : DeferJobAsync(job, "none")
    \/ \E task \in PeriodicTasks, ts \in 1..MaxTime : DeferPeriodicJob(task, ts)
    \/ \E queues \in FetchFilters : FetchJob(queues)
    \/ \E id \in 1..MaxJobs, status \in {"succeeded", "failed"} :
            FinishJob(id, status)
    \/ \E id \in 1..MaxJobs, retry_at \in 1..MaxTime : RetryJob(id, retry_at)
    \/ Tick

Spec == Init /\ [][Next]_vars

\* Producers, workers and an operator who overrides the status of jobs of
\* the table; the operator's call is two queries, and every other call may
\* take effect between them.  The periodic task deferred is the one that
\* carries a lock and a queueing lock.
NextOverride ==
    \/ \E job \in JobInputs : DeferJob(job, "none")
    \/ \E task \in {t \in PeriodicTasks : t.lock # None} :
            DeferPeriodicJob(task, 1)
    \/ FetchJob(None)
    \/ \E id \in 1..MaxJobs, status \in {"succeeded", "failed"} :
            FinishJob(id, status)
    \/ \E id \in 1..MaxJobs : RetryJob(id, MaxTime)
    \/ \E id \in DOMAIN jobs, status \in Statuses : SetJobStatus(id, status)
    \/ \E id \in BagToSet(setting) : SetJobStatusReturn(id, "none")
    \/ Tick

SpecOverride == Init /\ [][NextOverride]_vars

\* Workers, the maintenance path and an operator: claims, outcomes,
\* overrides, stalled-job detection, pruning and the job listing.
MaintInputs ==
    {Job("q1", Some("L1"), None, None), Job("q2", None, Some("Q1"), None)}

NextMaint ==
    \/ \E job \in MaintInputs : DeferJob(job, "none")
    \/ FetchJob(None)
    \/ \E id \in 1..MaxJobs, status \in {"succeeded", "failed"} :
            FinishJob(id, status)
    \/ \E id \in 1..MaxJobs : RetryJob(id, MaxTime)
    \/ \E id \in DOMAIN jobs, status \in Statuses : SetJobStatus(id, status)
    \/ \E id \in BagToSet(setting) : SetJobStatusReturn(id, "none")
    \/ \E c \in StalledCalls : GetStalledJobs(c[1], c[2], c[3])
    \/ \E c \in DeleteCalls : DeleteOldJobs(c[1], c[2], c[3])
    \/ ListJobs(NoFilter)
    \/ Tick

SpecMaint == Init /\ [][NextMaint]_vars

\* Producers, workers and the read-only projections; an override by an id
\* that no record carries.
NextObserve ==
    \/ \E job \in JobInputs : DeferJob(job, "none")
    \/ \E task \in PeriodicTasks : DeferPeriodicJob(task, 1)
    \/ \E queues \in FetchFilters : FetchJob(queues)
    \/ \E id \in 1..MaxJobs, status \in {"succeeded", "failed"} :
            FinishJob(id, status)
    \/ \E status \in Statuses : SetJobStatus(MaxJobs + 1, status)
    \/ \E id \in BagToSet(setting), fault \in ReadFaults :
            SetJobStatusReturn(id, fault)
    \/ \E f \in ListFilters : ListJobs(f)
    \/ \E f \in StatsFilters : ListQueues(f)
    \/ \E f \in StatsFilters : ListTasks(f)

SpecObserve == Init /\ [][NextObserve]_vars

\* Producers and listening workers.
NextNotify ==
    \/ \E job \in JobInputs : DeferJob(job, "none")
    \/ \E job \in JobInputs : DeferJobAsync(job, "none")
    \/ \E task \in PeriodicTasks : DeferPeriodicJob(task, 1)
    \/ \E w \in Workers, queues \in ListenFilters : ListenForJobs(w, queues)
    \/ \E w \in Workers : CancelListen(w)

SpecNotify == Init /\ [][NextNotify]_vars

\* A worker or the maintenance path settles a doing job: finish_job or
\* retry_job.
Settle(id) ==
    /\ id \in DOMAIN jobs
    /\ jobs[id].status = "doing"
    /\ \/ \E status \in {"succeeded", "failed"} : FinishJob(id, status)
       \/ jobs[id].attempts < MaxAttempts /\ RetryJob(id, MaxTime)

\* The callers the progress of jobs is stated for: producers, workers that
\* keep fetching from every queue, and finish_job and retry_job called by
\* those who were handed the job (it has been claimed at least once), every
\* doing job being eventually finished or retried.  A job is retried while
\* it has attempts left.
NextProgress ==
    \/ \E job \in MaintInputs : DeferJob(job, "none")
    \/ FetchJob(None)
    \/ \E id \in {i \in DOMAIN jobs : jobs[i].attempts >= 1},
          status \in {"succeeded", "failed"} :
            FinishJob(id, status)
    \/ \E id \in {i \in DOMAIN jobs : jobs[i].attempts >= 1} :
            /\ jobs[id].attempts < MaxAttempts
            /\ RetryJob(id, MaxTime)
    \/ Tick

SpecProgress ==
    /\ Init
    /\ [][NextProgress]_vars
    /\ WF_vars(FetchJob(None))
    /\ \A id \in 1..MaxJobs : WF_vars(Settle(id))

\* The same store when its queries may also fail for reasons of its own.
NextFaults ==
    \/ \E job \in JobInputs, fault \in Faults : DeferJob(job, fault)
    \/ \E job \in JobInputs, fault \in Faults : DeferJobAsync(job, fault)
    \/ \E queues \in FetchFilters : FetchJob(queues)
    \/ \E id \in 0..MaxJobs, status \in {"succeeded", "failed"} :
            FinishJob(id, status)

SpecFaults == Init /\ [][NextFaults]_vars

----------------------------------------------------------------------------
\* Properties.

SameLock(a, b) ==
    a # b /\ jobs[a].lock # None /\ jobs[a].lock = jobs[b].lock

\* C1 as stated: in every reachable state, whatever the interleaving of
\* defer_job, defer_periodic_job, fetch_job, finish_job, retry_job and
\* set_job_status calls, no two distinct jobs with the same non-null lock
\* are both doing.
C1_LockExclusivity ==
    \A a, b \in DOMAIN jobs :
        SameLock(a, b) =>
            ~(jobs[a].status = "doing" /\ jobs[b].status = "doing")

\* C1 amended: no two distinct jobs with the same non-null lock are both
\* doing, unless set_job_status has been called on one of them.
C1_LockExclusivityBarOverride ==
    \A a, b \in DOMAIN jobs :
        (SameLock(a, b) /\ hist[a] # "overridden" /\ hist[b] # "overridden")
            => ~(jobs[a].status = "doing" /\ jobs[b].status = "doing")

\* A fetch_job that found nothing although a due todo job exists, its lock
\* being held by a doing job.
C1_Witness ==
    /\ last.op = "fetch_job"
    /\ last.call.queues = None
    /\ last.ret = None
    /\ \E a, b \in DOMAIN jobs :
        /\ SameLock(a, b)
        /\ hist[a] = "live" /\ hist[b] = "live"
        /\ jobs[a].status = "doing"
        /\ jobs[b].status = "todo"
        /\ \A t \in jobs[b].scheduled_at : t <= now

\* C2: in every reachable state, for every non-null queueing_lock value at
\* most one job record carrying it has status todo or doing.
C2_QueueingLockUniqueness ==
    \A i \in DOMAIN jobs :
        jobs[i].queueing_lock # None =>
            Cardinality({k \in DOMAIN jobs :
                            /\ jobs[k].queueing_lock = jobs[i].queueing_lock
                            /\ jobs[k].status \in {"todo", "doing"}}) <= 1

\* A late retry_job on a finished job whose queueing lock has been taken by
\* a newer job: refused, the newer job stays the only holder.
C2_Witness ==
    /\ last.op = "retry_job"
    /\ last.exc.type = "UniqueViolation"
    /\ \E a, b \in DOMAIN jobs :
        /\ a # b
        /\ jobs[a].queueing_lock # None
        /\ jobs[a].queueing_lock = jobs[b].queueing_lock
        /\ a = last.call.id
        /\ jobs[a].status \in {"succeeded", "failed"}
        /\ jobs[b].status \in {"todo", "doing"}

IsDefer(op) == op \in {"defer_job", "defer_job_async"}

\* Some todo or doing job carries queueing lock q.
HeldBy(js, q) ==
    \E i \in DOMAIN js :
        js[i].queueing_lock = q /\ js[i].status \in {"todo", "doing"}

\* The record job description d is persisted as under id.
Persisted(js, id, d) ==
    /\ id \in DOMAIN js
    /\ js[id].task_name = d.task_name
    /\ js[id].queue = d.queue
    /\ js[id].queueing_lock = d.queueing_lock
    /\ js[id].args = d.task_kwargs
    /\ js[id].scheduled_at = d.scheduled_at
    /\ js[id].status = "todo"

\* C3: a defer_job or defer_job_async with a non-null queueing_lock Q, the
\* store answering, raises AlreadyEnqueued if and only if some job with
\* queueing_lock Q is todo or doing when it takes effect, and then changes
\* nothing; otherwise it persists the job and returns the new id.  So a
\* defer with Q right after a successful defer with Q raises
\* AlreadyEnqueued.
C3_DeferQueueingLock ==
    [][(/\ IsDefer(last'.op)
        /\ last'.call.fault = "none"
        /\ last'.call.job.queueing_lock # None)
       => LET q == last'.call.job.queueing_lock
          IN  /\ IF HeldBy(jobs, q)
                 THEN /\ last'.exc.type = "AlreadyEnqueued"
                      /\ last'.ret = None
                      /\ jobs' = jobs
                 ELSE /\ last'.exc = NoExc
                      /\ last'.ret = Some(nextId)
                      /\ DOMAIN jobs' = DOMAIN jobs \cup {nextId}
                      /\ Persisted(jobs', nextId, last'.call.job)
                      /\ \A i \in DOMAIN jobs : jobs'[i] = jobs[i]
              /\ (/\ IsDefer(last.op)
                  /\ last.exc = NoExc
                  /\ last.call.job.queueing_lock = q)
                 => last'.exc.type = "AlreadyEnqueued"]_vars

\* A defer with queueing lock Q that succeeded after the earlier job with Q
\* was finished.
C3_Witness ==
    /\ IsDefer(last.op)
    /\ last.call.job.queueing_lock # None
    /\ last.exc = NoExc
    /\ \E a \in DOMAIN jobs, b \in last.ret :
        /\ a # b
        /\ jobs[a].queueing_lock = last.call.job.queueing_lock
        /\ jobs[a].status \in {"succeeded", "failed"}
        /\ jobs[b].status = "todo"

\* C6: when the store answers a defer with a uniqueness violation, the call
\* raises AlreadyEnqueued, naming the job's queueing_lock, exactly when the
\* violated constraint is the queueing-lock constraint; for any other
\* violated constraint and any other failure the store's error leaves the
\* call as it is.  In both cases the table is left as it was.
C6_DeferErrorClassification ==
    [][(IsDefer(last'.op) /\ last'.answer.kind = "error")
       => LET e == last'.answer.error
          IN  /\ IF /\ e.type = "UniqueViolation"
                    /\ e.constraint_name = QUEUEING_LOCK_CONSTRAINT
                 THEN last'.exc =
                        [type |-> "AlreadyEnqueued",
                         queueing_lock |-> last'.call.job.queueing_lock]
                 ELSE last'.exc = e
              /\ last'.ret = None
              /\ jobs' = jobs
              /\ nextId' = nextId]_vars

\* A defer_job answered with a violation of another constraint while the
\* job's queueing lock is held: the violation itself is raised.
C6_Witness ==
    /\ last.op = "defer_job"
    /\ last.call.fault = "other_unique"
    /\ last.call.job.queueing_lock # None
    /\ HeldBy(jobs, last.call.job.queueing_lock)
    /\ last.exc = [type |-> "UniqueViolation",
                   constraint_name |-> OTHER_CONSTRAINT]

Min(a, b) == IF a <= b THEN a ELSE b

\* C4: N consecutive fetch_job calls with one filter, nothing else happening
\* in between, against M > 0 eligible jobs with pairwise distinct locks:
\* no job id is returned twice and exactly min(N, M) calls return a job.
C4_ClaimAtomicity ==
    (round.kind = "fetch" /\ round.distinct /\ round.m > 0)
        => LET n == Len(round.rets)
               got == {k \in 1..n : round.rets[k] # None}
           IN  /\ Cardinality(got) = Min(n, round.m)
               /\ \A k, l \in got : k # l => round.rets[k] # round.rets[l]

\* Two calls against two eligible jobs: two distinct jobs returned.
C4_Witness ==
    /\ round.kind = "fetch"
    /\ round.distinct
    /\ round.m = 2
    /\ Len(round.rets) = 2
    /\ round.rets[1] # None
    /\ round.rets[2] # None
    /\ round.rets[1] # round.rets[2]

\* The records created since a run of defer_periodic_job calls began.
CreatedInRound == DOMAIN jobs \ round.before

\* Exactly one record created, its id returned by exactly one call, None
\* returned by every other call, no exception.
OneCreated ==
    LET n == Len(round.outs)
    IN  /\ Cardinality(CreatedInRound) = 1
        /\ \A k \in 1..n : round.outs[k].exc = NoExc
        /\ Cardinality({k \in 1..n : round.outs[k].ret # None}) = 1
        /\ \A k \in 1..n :
              round.outs[k].ret # None => round.outs[k].ret = CreatedInRound

\* C5 as stated: N >= 1 consecutive defer_periodic_job calls with the same
\* task and defer_timestamp, not deferred before: exactly one job record is
\* created, exactly one call returns its id and the others return None, no
\* call raising.
C5_PeriodicDedup ==
    (round.kind = "periodic" /\ round.fresh) => OneCreated

\* C5 amended: the same when the task has no queueing_lock or no todo or
\* doing job holds it as the calls begin; when one does, no record is
\* created and every call raises AlreadyEnqueued.
C5_PeriodicDedupFreeLock ==
    (round.kind = "periodic" /\ round.fresh)
        => IF round.held
           THEN /\ CreatedInRound = {}
                /\ \A k \in 1..Len(round.outs) :
                      /\ round.outs[k].exc.type = "AlreadyEnqueued"
                      /\ round.outs[k].ret = None
           ELSE OneCreated

\* Two calls for one timestamp of the task with a queueing lock, the lock
\* free: the first created the job, the second returned None.
C5_Witness ==
    /\ round.kind = "periodic"
    /\ round.fresh
    /\ ~round.held
    /\ round.key[1] = "p2"
    /\ Len(round.outs) = 2
    /\ round.outs[1].ret # None
    /\ round.outs[2] = [exc |-> NoExc, ret |-> None]
    /\ Cardinality(CreatedInRound) = 1

\* The status changes each method may make to an existing job.
Lifecycle(op) ==
    IF op = "fetch_job" THEN {<<"todo", "doing">>}
    ELSE IF op = "finish_job"
    THEN {<<"doing", "succeeded">>, <<"doing", "failed">>}
    ELSE IF op = "retry_job" THEN {<<"doing", "todo">>}
    ELSE {}

\* C7: apart from set_job_status, a job is created as todo by a defer, and
\* an existing job changes status only todo -> doing in fetch_job, doing ->
\* succeeded or failed in finish_job, doing -> todo in retry_job; finish_job
\* and retry_job leave a job that is not doing as it is.
C7_LifecycleTransitions ==
    [][last'.op # "set_job_status"
       => \A i \in DOMAIN jobs' :
            IF i \in DOMAIN jobs
            THEN \/ jobs'[i].status = jobs[i].status
                 \/ <<jobs[i].status, jobs'[i].status>> \in Lifecycle(last'.op)
            ELSE /\ jobs'[i].status = "todo"
                 /\ last'.op \in {"defer_job", "defer_job_async",
                                  "defer_periodic_job"}]_vars

\* C8: a job returned by fetch_job(queues) was todo, due, in a queue of the
\* filter (any queue when the filter is None) and no other job with its
\* lock was doing; after the call it is doing with attempts one more, and
\* nothing else in the table has changed.
C8_FetchEligibilityAndEffect ==
    [][(last'.op = "fetch_job" /\ last'.ret # None)
       => LET id == The(last'.ret)
              queues == last'.call.queues
          IN  /\ id \in DOMAIN jobs
              /\ jobs[id].status = "todo"
              /\ jobs[id].scheduled_at = None
                    \/ The(jobs[id].scheduled_at) <= now
              /\ queues = None \/ jobs[id].queue \in The(queues)
              /\ \A o \in DOMAIN jobs :
                    (o # id /\ jobs[o].lock # None /\ jobs[o].lock = jobs[id].lock)
                        => jobs[o].status # "doing"
              /\ jobs' = [jobs EXCEPT ![id].status = "doing",
                                      ![id].attempts = jobs[id].attempts + 1]]_vars

\* A second claim of a job, through a queue filter, another job being in
\* the table.
C8_Witness ==
    /\ last.op = "fetch_job"
    /\ last.call.queues = Some({"q1"})
    /\ \E id \in last.ret :
        /\ jobs[id].status = "doing"
        /\ jobs[id].attempts = 2
        /\ jobs[id].scheduled_at # None
    /\ Cardinality(DOMAIN jobs) = 2

\* C9: fetch_job never claims a job while an earlier-created job with the
\* same non-null lock is todo or doing.
C9_CreationOrderInLockGroup ==
    [][(last'.op = "fetch_job" /\ last'.ret # None)
       => LET b == The(last'.ret)
          IN  \A a \in DOMAIN jobs :
                (a < b /\ jobs[a].lock # None /\ jobs[a].lock = jobs[b].lock)
                    => jobs[a].status \notin {"todo", "doing"}]_vars

\* C10: fetch_job never returns a job that has been succeeded or failed,
\* set_job_status not having been called on it.
C10_TerminalStaysTerminal ==
    ~(last.op = "fetch_job" /\ \E id \in last.ret : hist[id] = "terminal")

\* C11: over every call of every method (defer, fetch_job, finish_job,
\* retry_job, set_job_status, get_stalled_jobs, delete_old_jobs, the
\* listing), no job's attempts decreases; a job created starts at 0; the
\* attempts of the job a fetch_job moves into doing increase by exactly one;
\* every other job and every other call leave attempts as they are.
C11_AttemptsCounter ==
    [][\A i \in DOMAIN jobs' :
        IF i \notin DOMAIN jobs
        THEN jobs'[i].attempts = 0
        ELSE /\ jobs'[i].attempts >= jobs[i].attempts
             /\ jobs'[i].attempts =
                   IF /\ last'.op # "set_job_status"
                      /\ jobs[i].status # "doing"
                      /\ jobs'[i].status = "doing"
                   THEN jobs[i].attempts + 1
                   ELSE jobs[i].attempts]_vars

\* A job claimed for the second time, another job having been pruned.
C11_Witness ==
    /\ last.op = "fetch_job"
    /\ \E id \in last.ret :
        /\ jobs[id].attempts = 2
        /\ jobs[id].status = "doing"
    /\ \E d \in 1..(nextId - 1) : d \notin DOMAIN jobs

\* C12 as stated: retry_job(job, retry_at) on a doing job sets its status to
\* todo and its scheduled_at to retry_at and changes nothing else, of this
\* job or of any other; the job still holds its queueing_lock against a
\* defer; and with retry_at at or before the current time the job is
\* eligible for fetch_job at once.
C12_RetryEffectAndFrame ==
    [][(/\ last'.op = "retry_job"
        /\ last'.call.id \in DOMAIN jobs
        /\ jobs[last'.call.id].status = "doing")
       => LET id == last'.call.id
              at == last'.call.retry_at
          IN  /\ last'.exc = NoExc
              /\ jobs' = [jobs EXCEPT ![id].status = "todo",
                                      ![id].scheduled_at = Some(at)]
              /\ jobs[id].queueing_lock # None
                    => HeldBy(jobs', jobs[id].queueing_lock)
              /\ at <= now => Eligible(jobs', id, None, now)]_vars

\* C12 amended: the same, the job being eligible at once unless another job
\* with its lock is doing, set_job_status having been called on one of the
\* two.
C12_RetryEffectAndFrameBarOverride ==
    [][(/\ last'.op = "retry_job"
        /\ last'.call.id \in DOMAIN jobs
        /\ jobs[last'.call.id].status = "doing")
       => LET id == last'.call.id
              at == last'.call.retry_at
          IN  /\ last'.exc = NoExc
              /\ jobs' = [jobs EXCEPT ![id].status = "todo",
                                      ![id].scheduled_at = Some(at)]
              /\ jobs[id].queueing_lock # None
                    => HeldBy(jobs', jobs[id].queueing_lock)
              /\ at <= now =>
                    \/ Eligible(jobs', id, None, now)
                    \/ \E o \in DOMAIN jobs' :
                          /\ o # id
                          /\ jobs'[o].lock # None
                          /\ jobs'[o].lock = jobs'[id].lock
                          /\ jobs'[o].status = "doing"
                          /\ "overridden" \in {hist'[o], hist'[id]}]_vars

\* A job with a queueing lock, claimed once and never finished, retried for
\* the current time: todo, due, its attempt counted, holding its queueing
\* lock, eligible.
C12_Witness ==
    /\ last.op = "retry_job"
    /\ last.exc = NoExc
    /\ last.call.retry_at <= now
    /\ last.call.id \in DOMAIN hist
    /\ hist[last.call.id] = "live"
    /\ last.call.id \in DOMAIN jobs
    /\ jobs[last.call.id].status = "todo"
    /\ jobs[last.call.id].attempts >= 1
    /\ jobs[last.call.id].queueing_lock # None
    /\ Eligible(jobs, last.call.id, None, now)

\* The jobs whose last transition into doing is longer ago than nb_seconds.
Stalled(nb_seconds) ==
    {i \in DOMAIN jobs :
        /\ jobs[i].status = "doing"
        /\ since[i] # None
        /\ (now - The(since[i])) * SecondsPerTick > nb_seconds}

\* C13: get_stalled_jobs(nb_seconds, queue, task_name) returns exactly the
\* jobs that are doing, entered doing more than nb_seconds ago and match the
\* queue and task filters given; never a todo, succeeded or failed job; and
\* it changes no job.
C13_StalledDetection ==
    [][last'.op = "get_stalled_jobs"
       => LET c == last'.call
          IN  /\ last'.ret =
                    {i \in Stalled(c.nb_seconds) :
                        /\ c.queue = None \/ jobs[i].queue = The(c.queue)
                        /\ c.task_name = None
                              \/ jobs[i].task_name = The(c.task_name)}
              /\ \A i \in last'.ret : jobs[i].status = "doing"
              /\ jobs' = jobs]_vars

\* Two doing jobs, one claimed an hour ago and one just now: the call with
\* threshold 0 returns the first and not the second.
C13_Witness ==
    /\ last.op = "get_stalled_jobs"
    /\ last.call.nb_seconds = 0
    /\ \E a, b \in DOMAIN jobs :
        /\ a \in last.ret
        /\ b \notin last.ret
        /\ jobs[a].status = "doing"
        /\ jobs[b].status = "doing"

\* C14: delete_old_jobs(nb_hours, queue, include_error) deletes exactly the
\* records that are succeeded - or, with include_error true, succeeded or
\* failed -, became so more than nb_hours ago and match the queue filter;
\* no todo or doing job is deleted and no remaining record is changed.
C14_RetentionPruning ==
    [][last'.op = "delete_old_jobs"
       => LET c == last'.call
              deleted == DOMAIN jobs \ DOMAIN jobs'
          IN  /\ DOMAIN jobs' \subseteq DOMAIN jobs
              /\ \A i \in DOMAIN jobs' : jobs'[i] = jobs[i]
              /\ \A i \in DOMAIN jobs :
                    i \in deleted <=>
                        /\ \/ jobs[i].status = "succeeded"
                           \/ /\ jobs[i].status = "failed"
                              /\ c.include_error = Some(TRUE)
                        /\ since[i] # None
                        /\ now - The(since[i]) > c.nb_hours
                        /\ c.queue = None \/ jobs[i].queue = The(c.queue)]_vars

\* A call without include_error that deleted a succeeded job and left a
\* failed job just as old.
C14_Witness ==
    /\ last.op = "delete_old_jobs"
    /\ last.call.include_error = Some(FALSE)
    /\ \E d \in 1..(nextId - 1) : d \notin DOMAIN jobs
    /\ \E i \in DOMAIN jobs :
        /\ jobs[i].status = "failed"
        /\ since[i] # None
        /\ now - The(since[i]) > last.call.nb_hours

\* The lock the caller of the last defer supplied.
SuppliedLock ==
    IF last.op = "defer_periodic_job" THEN last.call.task.lock
    ELSE last.call.job.lock

\* No other job shares the non-null lock of job i.
NoLockPartner(js, i) ==
    \A o \in DOMAIN js : (o # i /\ js[o].lock # None) => js[o].lock # js[i].lock

\* A record has just been created by a defer whose caller supplied no lock.
DeferredWithoutLock ==
    /\ last.op \in {"defer_job", "defer_job_async", "defer_periodic_job"}
    /\ last.ret # None
    /\ SuppliedLock = None

\* C15 as stated: every job persisted by defer_job, defer_job_async or
\* defer_periodic_job whose caller supplied no lock carries a lock token of
\* its own, distinct from the lock of every other job.
C15_LockFallback ==
    DeferredWithoutLock =>
        /\ jobs[The(last.ret)].lock # None
        /\ NoLockPartner(jobs, The(last.ret))

\* What defer_job and defer_job_async would do with a job description in
\* the current state: the query's arguments, the table left, the outcome.
DeferJobOutcome(job, fault) ==
    LET kw == DeferJobQueryKwargs(job, Uuid4(nextId))
        st == StoreDeferJob(jobs, nextId, kw, fault)
        out == DeferJobResult(st.answer, job.queueing_lock)
    IN  [kw |-> kw, jobs |-> st.jobs, exc |-> out.exc, ret |-> out.ret]

DeferJobAsyncOutcome(job, fault) ==
    LET kw == DeferJobQueryKwargs(job, Uuid4(nextId))
        st == StoreDeferJob(jobs, nextId, kw, fault)
        out == DeferJobAsyncResult(st.answer, job.queueing_lock)
    IN  [kw |-> kw, jobs |-> st.jobs, exc |-> out.exc, ret |-> out.ret]

\* C16: in every state, for every job description and whatever the store
\* does to the query, defer_job and defer_job_async issue the same query
\* with the same arguments, leave the same table, and both return the new
\* id, or both raise AlreadyEnqueued, or both raise the store's error.
C16_SyncAsyncEquivalence ==
    \A job \in JobInputs, fault \in Faults :
        DeferJobOutcome(job, fault) = DeferJobAsyncOutcome(job, fault)

\* defer_job_async has just raised AlreadyEnqueued, and defer_job would do
\* so too; for another description both would return the new id, and with
\* the store failing both would raise its error.
C16_Witness ==
    /\ last.op = "defer_job_async"
    /\ last.exc.type = "AlreadyEnqueued"
    /\ DeferJobOutcome(last.call.job, "none").exc = last.exc
    /\ \E job \in JobInputs :
        /\ DeferJobOutcome(job, "none").ret = Some(nextId)
        /\ DeferJobAsyncOutcome(job, "none").ret = Some(nextId)
        /\ DeferJobOutcome(job, "connector_error").exc = ConnectorError

\* fetch_job, no job being eligible, returns None without raising and
\* changes no record.
FetchAbsence ==
    (/\ last'.op = "fetch_job"
     /\ \A i \in DOMAIN jobs : ~Eligible(jobs, i, last'.call.queues, now))
        => /\ last'.exc = NoExc
           /\ last'.ret = None
           /\ jobs' = jobs

\* list_jobs returns the matching jobs, none when there is none, without
\* raising.
ListAbsence ==
    last'.op = "list_jobs" =>
        LET f == last'.call
        IN  /\ last'.exc = NoExc
            /\ {e.id : e \in last'.ret} =
                  {i \in DOMAIN jobs :
                      /\ f.id = None \/ i = The(f.id)
                      /\ f.queue = None \/ jobs[i].queue = The(f.queue)
                      /\ f.task = None \/ jobs[i].task_name = The(f.task)
                      /\ f.status = None \/ jobs[i].status = The(f.status)
                      /\ f.lock = None \/ jobs[i].lock = f.lock
                      /\ f.queueing_lock = None
                            \/ jobs[i].queueing_lock = f.queueing_lock}
            /\ jobs' = jobs

\* set_job_status with an id no record carries, the store answering both
\* queries: neither the update nor the listing raises, the call returns an
\* empty result and no record is changed.
OverrideAbsence ==
    /\ (last'.op = "set_job_status" /\ last'.call.id \notin DOMAIN jobs)
            => (last'.exc = NoExc /\ jobs' = jobs)
    /\ (/\ last'.op = "set_job_status_return"
        /\ last'.call.fault = "none"
        /\ last'.call.id \notin DOMAIN jobs)
            => /\ last'.exc = NoExc
               /\ last'.ret = None
               /\ jobs' = jobs

\* C17: absence is a value, not an error: fetch_job returns None when no
\* job is eligible, list_jobs returns an empty list when no job matches,
\* set_job_status with an id that matches no record yields an empty result;
\* none of them raises.
C17_AbsenceIsAValue ==
    [][FetchAbsence /\ ListAbsence /\ OverrideAbsence]_vars

\* The numbers list_queues and list_tasks are to report for a name: the
\* jobs with that queue or task that pass the filters of the call, in all
\* and per status.
Counted(field, name, f, status) ==
    Cardinality({i \in DOMAIN jobs :
        /\ jobs[i][field] = name
        /\ status # None => jobs[i].status = The(status)
        /\ f.queue = None \/ jobs[i].queue = The(f.queue)
        /\ f.task = None \/ jobs[i].task_name = The(f.task)
        /\ f.status = None \/ jobs[i].status = The(f.status)
        /\ f.lock = None \/ jobs[i].lock = f.lock})

Statistics(field, f) ==
    {[name |-> n,
      jobs_count |-> Counted(field, n, f, None),
      todo |-> Counted(field, n, f, Some("todo")),
      doing |-> Counted(field, n, f, Some("doing")),
      succeeded |-> Counted(field, n, f, Some("succeeded")),
      failed |-> Counted(field, n, f, Some("failed"))] :
        n \in {jobs[i][field] : i \in {k \in DOMAIN jobs :
                                        Counted(field, jobs[k][field], f, None) > 0}}}

\* C19: every entry list_queues and list_tasks return carries the four keys
\* todo, doing, succeeded and failed, each the number of jobs of that queue
\* or task (within the filters of the call) in that status, 0 when there is
\* none.
C19_StatsZeroFill ==
    /\ last.op = "list_queues" => last.ret = Statistics("queue", last.call)
    /\ last.op = "list_tasks" => last.ret = Statistics("task_name", last.call)

\* list_queues without filter, queue q1 holding two todo jobs and nothing
\* else: todo = 2, doing = 0, succeeded = 0, failed = 0.
C19_Witness ==
    /\ last.op = "list_queues"
    /\ last.call = NoStatsFilter
    /\ [name |-> "q1", jobs_count |-> 2, todo |-> 2, doing |-> 0,
        succeeded |-> 0, failed |-> 0] \in last.ret

\* The non-empty sequences of distinct queue names.
QueueLists ==
    {<<q>> : q \in Queues}
    \cup {s \in Queues \X Queues : s[1] # s[2]}

\* The elements of a sequence.
Range(seq) == {seq[k] : k \in 1..Len(seq)}

\* get_channel_for_queues(None) is the one channel for any queue; for a
\* non-empty list of queue names it is one channel per name, the prefix and
\* the name, distinct for distinct names and never the channel for any
\* queue.
ChannelsOfFilter ==
    /\ GetChannelForQueues(None) = <<"procrastinate_any_queue">>
    /\ \A Q \in QueueLists :
        LET ch == GetChannelForQueues(Some(Q))
        IN  /\ Len(ch) = Len(Q)
            /\ \A k \in 1..Len(Q) : ch[k] = "procrastinate_queue#" \o Q[k]
            /\ \A k, l \in 1..Len(Q) : Q[k] # Q[l] => ch[k] # ch[l]
            /\ \A k \in 1..Len(Q) : ch[k] # "procrastinate_any_queue"

\* A defer has created a record in queue q: the event of every listener
\* whose filter is None or contains q is set, the event of every other
\* listener is as it was.
FanOut ==
    \A q \in Created(jobs, jobs') :
        \A w \in DOMAIN listeners :
            IF \/ listeners[w].queues = None
               \/ q \in Range(The(listeners[w].queues))
            THEN listeners'[w].event
            ELSE listeners'[w].event = listeners[w].event

\* C18: the channels of a filter are as get_channel_for_queues is described,
\* and so every successful defer_job, defer_job_async or defer_periodic_job
\* into queue q sets the event of every worker in listen_for_jobs with
\* queues None or containing q, and of no worker whose filter lacks q.
C18_NotificationFanOut ==
    /\ []ChannelsOfFilter
    /\ [][\/ last'.op \in {"listen_for_jobs", "cancel_listen"}
          \/ /\ FanOut
             /\ Created(jobs, jobs') = {} => listeners' = listeners]_vars

\* A job has just been deferred into q2: the event of the worker listening
\* to every queue is set, the event of the worker listening to q1 alone is
\* not.
C18_Witness ==
    /\ IsDefer(last.op)
    /\ last.ret # None
    /\ jobs[The(last.ret)].queue = "q2"
    /\ \E v, w \in DOMAIN listeners :
        /\ listeners[v].queues = Some(<<"q1">>)
        /\ ~listeners[v].event
        /\ listeners[w].queues = None
        /\ listeners[w].event

\* Job id is todo and its scheduled_at is unset or has passed.
DueTodo(id) ==
    /\ id \in DOMAIN jobs
    /\ jobs[id].status = "todo"
    /\ \A t \in jobs[id].scheduled_at : t <= now

\* C20: workers fetching from every queue again and again and every doing
\* job being eventually finished or retried, every todo job whose
\* scheduled_at is unset or has passed is eventually doing.
C20_Progress ==
    \A id \in 1..MaxJobs :
        DueTodo(id) ~> (id \in DOMAIN jobs /\ jobs[id].status = "doing")

====
